---- MODULE Spec2Model ----
(***************************************************************************)
(* Retry engine of github.com/mawngo/go-try/v2:                            *)
(*   DoCtxWithOptions / GetCtxWithOptions (try.go), Options and its        *)
(*   matchError (options.go), the backoff strategies (backoff/backoff.go). *)
(*                                                                         *)
(* One behaviour of the model is one run of the engine: Init is the entry  *)
(* of DoCtxWithOptions / GetCtxWithOptions with an Options value built by  *)
(* NewOptions, and every action is one step of the attempt loop.  The      *)
(* context passed by the caller is cancelled by the environment (Cancel),  *)
(* at any program point of the run.                                        *)
(***************************************************************************)
EXTENDS Integers, Sequences, FiniteSets, TLC

(***************************************************************************)
(* Bounds of the model.                                                    *)
(***************************************************************************)
\* largest attempt limit given to WithAttempts
MaxAttempts == 3
\* invocations explored of a run without attempt limit (maxAttempts <= 0)
MaxCalls == 4
\* width of a time.Duration in the model (the program has 64 bits)
DurationBits == 6
\* largest attempt index a backoff strategy is consulted with
MaxIndex == 7
\* largest number of RetryOptions given to NewOptions
MaxOptions == 2

(***************************************************************************)
(* Errors.  An error value is the sequence of the leaf errors of its       *)
(* chain, in the order errors.Is visits them; nil is the empty sequence.   *)
(***************************************************************************)
Nil == <<>>

ErrRetryAttemptsExceed == <<"ErrRetryAttemptsExceed">>

Canceled == <<"Canceled">>

DeadlineExceeded == <<"DeadlineExceeded">>

errFailed == <<"errFailed">>

errAnother == <<"errAnother">>

\* errors.Is(e, target) for a leaf target
Is(e, target) == \E i \in 1..Len(e) : e[i] = target[1]

\* errors.Join(a, b): nil arguments are dropped, all nil gives nil
Join(a, b) == a \o b

\* errors.Is(err, context.DeadlineExceeded) || errors.Is(err, context.Canceled)
IsCtxErr(e) == Is(e, DeadlineExceeded) \/ Is(e, Canceled)

\* the errors an operation returns in the model
OpErrs == {errFailed, errAnother, Canceled, DeadlineExceeded}

\* the values a Get operation returns in the model; 0 is the zero value of T
Values == {0, 1}

(***************************************************************************)
(* Options (options.go).                                                   *)
(***************************************************************************)
\* a nil ErrorMatcher, backoff.Strategy or OnRetryHandler
NilFunc == [kind |-> "nil"]

\* ErrIs(err): the matcher  func(e) bool { return errors.Is(e, err) }
ErrIs(target) == [kind |-> "ErrIs", target |-> target]

\* the loop of the matcher of WithRetryFor / WithNoRetryFor over several errors:
\*   for i := range errs { return errors.Is(e, errs[i]) }; return false
\* its body returns in the first iteration
ForLoop(errs, e) == IF Len(errs) = 0 THEN FALSE ELSE Is(e, errs[1])

\* WithRetryFor(err, errs...): the matcher stored in options.matcher
WithRetryFor(errs) ==
    IF Len(errs) = 1 THEN ErrIs(errs[1]) ELSE [kind |-> "For", errs |-> errs]

\* WithNoRetryFor(err, errs...): the matcher stored in options.excludedMatcher
WithNoRetryFor(errs) ==
    IF Len(errs) = 1 THEN ErrIs(errs[1]) ELSE [kind |-> "For", errs |-> errs]

\* the matcher WithRetryIf / WithNoRetryIf store: the one matcher given, or
\*   for i := range matchers { if matchers[i](err) { return true } }; return false
AnyOf(matchers) ==
    IF Len(matchers) = 1 THEN matchers[1] ELSE [kind |-> "If", matchers |-> matchers]

\* call of an ErrorMatcher
RECURSIVE ApplyMatcher(_, _)
ApplyMatcher(m, e) ==
    CASE m.kind = "ErrIs" -> Is(e, m.target)
      [] m.kind = "For" -> ForLoop(m.errs, e)
      [] m.kind = "If" -> \E i \in 1..Len(m.matchers) : ApplyMatcher(m.matchers[i], e)
      [] OTHER -> FALSE

\* backoff.NewFixedBackoff(d)
NewFixedBackoff(d) == [kind |-> "fixed", d |-> d]

\* the largest time.Duration
maximumBackoff == 2^(DurationBits - 1) - 1

\* max for min
Min_Larger(a, b) == IF a < b THEN b ELSE a

\* min
Min(a, b) == IF a < b THEN a ELSE b

(***************************************************************************)
(* Backoff strategies (backoff/backoff.go).  A time.Duration is a signed   *)
(* integer of DurationBits bits; its arithmetic wraps around.              *)
(***************************************************************************)
\* the value of a signed integer of DurationBits bits after overflow
Wrap(x) == ((x + 2^(DurationBits - 1)) % 2^DurationBits) - 2^(DurationBits - 1)

\* a + b, a - b, a * b on time.Duration
Add(a, b) == Wrap(a + b)

Sub(a, b) == Wrap(a - b)

Mul(a, b) == Wrap(a * b)

\* math.Pow(float64(b), float64(n)) for integers b >= 0, n >= 0
RECURSIVE Pow(_, _)
Pow(b, n) == IF n = 0 THEN 1 ELSE b * Pow(b, n - 1)

\* what the conversion of a float64 that no time.Duration can hold gives:
\* the smallest Duration on some builds, the largest on others
Convs == {"min", "max"}

\* time.Duration(x) for a float64 x >= 0 with an integer value
ToDuration(x, conv) ==
    IF x <= maximumBackoff
    THEN x
    ELSE IF conv = "min" THEN -(2^(DurationBits - 1)) ELSE maximumBackoff

\* backoff.NewBackoffWithJitter(backoff, jitter)
NewBackoffWithJitter(base, jitter) ==
    [kind |-> "jitter", base |-> base, jitter |-> jitter]

\* backoff.NewRandomBackoff(minBackoff, jitter)
NewRandomBackoff(minBackoff, jitter) ==
    NewBackoffWithJitter(NewFixedBackoff(minBackoff), jitter)

\* backoff.NewExponentialBackoff(initialBackoff, multiplier, maximumBackoff)
NewExponentialBackoff(initial, multiplier, maximum) ==
    [kind |-> "exponential", initial |-> initial, multiplier |-> multiplier,
     maximum |-> maximum]

\* backoff.NewExponentialRandomBackoff(initialBackoff, multiplier, maximumBackoff, jitter)
NewExponentialRandomBackoff(initial, multiplier, maximum, jitter) ==
    [kind |-> "exponentialRandom", initial |-> initial,
     multiplier |-> multiplier, maximum |-> maximum, jitter |-> jitter]

\* backoff.NewIncrementalBackoff(initialBackoff, incremental, maximumBackoff)
NewIncrementalBackoff(initial, incremental, maximum) ==
    [kind |-> "incremental", initial |-> initial, incremental |-> incremental,
     maximum |-> maximum]

\* backoff.NewIncrementalRandomBackoff(initialBackoff, incremental, maximumBackoff, jitter)
NewIncrementalRandomBackoff(initial, incremental, maximum, jitter) ==
    [kind |-> "incrementalRandom", initial |-> initial,
     incremental |-> incremental, maximum |-> maximum, jitter |-> jitter]

\* the strategy uses rand.Int63n(int64(jitter))
IsRandom(s) == s.kind \in {"jitter", "exponentialRandom", "incrementalRandom"}

\* rand.Int63n that accepts every argument
Int63nPanics_Never(n) == FALSE

\* rand.Int63n(n) panics for n <= 0
Int63nPanics(n) == n <= 0

\* the call of the strategy panics (the strategy wrapped by
\* NewBackoffWithJitter is called first)
RECURSIVE Panics(_)
Panics(s) ==
    CASE s.kind = "jitter" -> Panics(s.base) \/ Int63nPanics(s.jitter)
      [] s.kind \in {"exponentialRandom", "incrementalRandom"} -> Int63nPanics(s.jitter)
      [] OTHER -> FALSE

\* the values rand.Int63n(int64(jitter)) returns: 0 .. jitter-1 (nothing is
\* drawn, written as 0, without it and when it panics)
Draws(s) == IF IsRandom(s) /\ s.jitter > 0 THEN 0..(s.jitter - 1) ELSE {0}

\* the function returned by NewExponentialBackoff
ExponentialCall(s, i, conv) ==
    LET exponential == Pow(s.multiplier, i - 1)
        bo == Mul(s.initial, ToDuration(exponential, conv))
    IN  IF s.maximum = 0 THEN bo ELSE Min(bo, s.maximum)

\* NewExponentialRandomBackoff that adds the jitter without a maximum too
ExponentialRandomCall_JitterUncapped(s, i, rnd, conv) ==
    LET exponential == Pow(s.multiplier, i - 1)
        jitter == rnd
        bo == Mul(s.initial, ToDuration(exponential, conv))
    IN  IF s.maximum = 0
        THEN Add(bo, jitter)
        ELSE IF bo >= s.maximum
             THEN Add(Sub(bo, jitter), 0)
             ELSE Min(Add(bo, jitter), s.maximum)

\* the function returned by NewExponentialRandomBackoff; the max of the one
\* argument  backoff - jitter + 0  is this argument
ExponentialRandomCall(s, i, rnd, conv) ==
    LET exponential == Pow(s.multiplier, i - 1)
        jitter == rnd
        bo == Mul(s.initial, ToDuration(exponential, conv))
    IN  IF s.maximum = 0
        THEN bo
        ELSE IF bo >= s.maximum
             THEN Add(Sub(bo, jitter), 0)
             ELSE Min(Add(bo, jitter), s.maximum)

\* the function returned by NewIncrementalBackoff
IncrementalCall(s, i) ==
    LET inc == Mul(s.incremental, i - 1)
        bo == Add(s.initial, inc)
    IN  IF s.maximum = 0 THEN bo ELSE Min(bo, s.maximum)

\* the function returned by NewIncrementalRandomBackoff
IncrementalRandomCall(s, i, rnd) ==
    LET inc == Mul(s.incremental, i - 1)
        jitter == rnd
        bo == Add(s.initial, inc)
    IN  IF s.maximum = 0
        THEN bo
        ELSE IF bo >= s.maximum
             THEN Add(Sub(bo, jitter), 0)
             ELSE Min(Add(bo, jitter), s.maximum)

\* call of a backoff.Strategy with error e and attempt index i; rnd is the
\* value rand.Int63n returns in it, conv the outcome of an out-of-range
\* conversion (the strategy wrapped by NewBackoffWithJitter draws nothing)
RECURSIVE ApplyStrategy(_, _, _, _, _)
ApplyStrategy(s, e, i, rnd, conv) ==
    CASE s.kind = "fixed" -> s.d
      [] s.kind = "jitter" -> Add(ApplyStrategy(s.base, e, i, 0, conv), rnd)
      [] s.kind = "exponential" -> ExponentialCall(s, i, conv)
      [] s.kind = "exponentialRandom" -> ExponentialRandomCall(s, i, rnd, conv)
      [] s.kind = "incremental" -> IncrementalCall(s, i)
      [] s.kind = "incrementalRandom" -> IncrementalRandomCall(s, i, rnd)

\* the parameters of the strategies explored, all non-negative
Initials == {0, 1, 3}

Multipliers == {1, 2, 3}

Increments == {0, 2, 11}

Maximums == {0, 1, 4}

Jitters == {0, 1, 3}

\* the strategies explored
BackoffChoices ==
    {NewFixedBackoff(d) : d \in Initials}
    \cup {NewRandomBackoff(d, j) : d \in Initials, j \in Jitters}
    \cup {NewBackoffWithJitter(NewExponentialBackoff(1, 2, 4), j) : j \in Jitters}
    \cup {NewExponentialBackoff(a, m, x) :
              a \in Initials, m \in Multipliers, x \in Maximums}
    \cup {NewExponentialRandomBackoff(a, m, x, j) :
              a \in Initials, m \in Multipliers, x \in Maximums, j \in Jitters}
    \cup {NewIncrementalBackoff(a, c, x) :
              a \in Initials, c \in Increments, x \in Maximums}
    \cup {NewIncrementalRandomBackoff(a, c, x, j) :
              a \in Initials, c \in Increments, x \in Maximums, j \in Jitters}

(***************************************************************************)
(* Construction of an Options value (options.go).                          *)
(***************************************************************************)
\* DefaultAttempts
DefaultAttempts == 5

\* DefaultBackoff, in units of 100ms
DefaultBackoff == 3

\* DefaultJitter, in units of 100ms
DefaultJitter == 1

\* Options{}
ZeroOptions ==
    [maxAttempts |-> 0, matcher |-> NilFunc, excludedMatcher |-> NilFunc,
     backoffStrategy |-> NilFunc, onRetry |-> NilFunc, joinCtxErr |-> FALSE]

\* otp := Options{backoffStrategy: ..., maxAttempts: DefaultAttempts}
DefaultOptions ==
    [ZeroOptions EXCEPT
        !.backoffStrategy = NewRandomBackoff(DefaultBackoff, DefaultJitter),
        !.maxAttempts = DefaultAttempts]

\* defaultMultiplier
defaultMultiplier == 2

\* WithAttempts(attempts)
WithAttempts(attempts) == [kind |-> "WithAttempts", attempts |-> attempts]

\* WithJoinCtxErr()
WithJoinCtxErr == [kind |-> "WithJoinCtxErr"]

\* WithUnlimitedAttempts()
WithUnlimitedAttempts == [kind |-> "WithUnlimitedAttempts"]

\* WithRetryIf(matcher, matchers...)
WithRetryIf(matchers) == [kind |-> "WithRetryIf", matchers |-> matchers]

\* WithNoRetryIf(matcher, matchers...)
WithNoRetryIf(matchers) == [kind |-> "WithNoRetryIf", matchers |-> matchers]

\* the RetryOption returned by WithRetryFor(err, errs...)
RetryForOption(errs) == [kind |-> "WithRetryFor", errs |-> errs]

\* the RetryOption returned by WithNoRetryFor(err, errs...)
NoRetryForOption(errs) == [kind |-> "WithNoRetryFor", errs |-> errs]

\* WithBackoff(strategy)
WithBackoff(strategy) == [kind |-> "WithBackoff", strategy |-> strategy]

\* WithNoBackoff()
WithNoBackoff == [kind |-> "WithNoBackoff"]

\* WithFixedBackoff(duration)
WithFixedBackoff(duration) == [kind |-> "WithFixedBackoff", duration |-> duration]

\* WithRandomBackoff(duration)
WithRandomBackoff(duration) == [kind |-> "WithRandomBackoff", duration |-> duration]

\* WithExponentialBackoff(initialBackoff, maximumBackoff)
WithExponentialBackoff(initial, maximum) ==
    [kind |-> "WithExponentialBackoff", initial |-> initial, maximum |-> maximum]

\* WithExponentialRandomBackoff(initialBackoff, maximumBackoff)
WithExponentialRandomBackoff(initial, maximum) ==
    [kind |-> "WithExponentialRandomBackoff", initial |-> initial, maximum |-> maximum]

\* WithOnRetry(handler, handlers...)
WithOnRetry(handlers) == [kind |-> "WithOnRetry", handlers |-> handlers]

\* WithOptions(opt): opt is a copy of the caller's Options value
WithOptions(opt) == [kind |-> "WithOptions", opt |-> opt]

\* the handler WithOnRetry stores: the one handler given, or
\*   for i := range handlers { handlers[i](ctx, err, retry) }
AllOf(handlers) ==
    IF Len(handlers) = 1 THEN handlers[1] ELSE [kind |-> "handlers", handlers |-> handlers]

\* an assignment that keeps the attempt limit already set
Assign_KeepAttempts(options, opt) == [opt EXCEPT !.maxAttempts = options.maxAttempts]

\* *options = opt
Assign(options, opt) == opt

\* o(&otp): the Options value the RetryOption o leaves in *options
ApplyOption(o, options) ==
    CASE o.kind = "WithAttempts" -> [options EXCEPT !.maxAttempts = o.attempts]
      [] o.kind = "WithJoinCtxErr" -> [options EXCEPT !.joinCtxErr = TRUE]
      [] o.kind = "WithUnlimitedAttempts" -> [options EXCEPT !.maxAttempts = 0]
      [] o.kind = "WithRetryIf" -> [options EXCEPT !.matcher = AnyOf(o.matchers)]
      [] o.kind = "WithRetryFor" -> [options EXCEPT !.matcher = WithRetryFor(o.errs)]
      [] o.kind = "WithNoRetryIf" ->
            [options EXCEPT !.excludedMatcher = AnyOf(o.matchers)]
      [] o.kind = "WithNoRetryFor" ->
            [options EXCEPT !.excludedMatcher = WithNoRetryFor(o.errs)]
      [] o.kind = "WithBackoff" -> [options EXCEPT !.backoffStrategy = o.strategy]
      [] o.kind = "WithNoBackoff" -> [options EXCEPT !.backoffStrategy = NilFunc]
      [] o.kind = "WithFixedBackoff" ->
            [options EXCEPT !.backoffStrategy = NewFixedBackoff(o.duration)]
      [] o.kind = "WithRandomBackoff" ->
            [options EXCEPT !.backoffStrategy =
                NewRandomBackoff(o.duration, o.duration \div 2)]
      [] o.kind = "WithExponentialBackoff" ->
            [options EXCEPT !.backoffStrategy =
                NewExponentialRandomBackoff(o.initial, defaultMultiplier, o.maximum,
                                            o.initial \div 2)]
      [] o.kind = "WithExponentialRandomBackoff" ->
            [options EXCEPT !.backoffStrategy =
                NewExponentialBackoff(o.initial, defaultMultiplier, o.maximum)]
      [] o.kind = "WithOnRetry" -> [options EXCEPT !.onRetry = AllOf(o.handlers)]
      [] o.kind = "WithOptions" -> Assign(options, o.opt)

\* the runs sharing one Options value
Runs == 1..2

\* the memory cell of the shared Options value (global)
Global == 0

\* the memory cells holding an Options value: global and the otp of each run
Cells == {Global} \cup Runs

\* NewOptions of run r writes to the cell of the caller's global
Target_Global(r) == Global

\* &otp: the cell the RetryOptions of run r write to, its own local otp
Target(r) == r

\* attempts of the shared value: global := NewOptions(WithAttempts(a))
SharedChoices == {ApplyOption(WithAttempts(a), DefaultOptions) : a \in 1..2}

\* the attempts a run overrides the shared value with
Overrides == 2..MaxAttempts

\* matchError without the exclude matcher
matchError_NoExclude(o, e) ==
    IF o.matcher = NilFunc
    THEN TRUE
    ELSE ApplyMatcher(o.matcher, e)

\* matchError with the retry matcher consulted before the exclude matcher
matchError_RetryFirst(o, e) ==
    IF o.matcher # NilFunc /\ ApplyMatcher(o.matcher, e)
    THEN TRUE
    ELSE IF o.excludedMatcher # NilFunc /\ ApplyMatcher(o.excludedMatcher, e)
         THEN FALSE
         ELSE o.matcher = NilFunc

\* Options.matchError
matchError(o, e) ==
    IF o.excludedMatcher # NilFunc /\ ApplyMatcher(o.excludedMatcher, e)
    THEN FALSE
    ELSE IF o.matcher = NilFunc
         THEN TRUE
         ELSE ApplyMatcher(o.matcher, e)

\* the matchers of the explored configurations
MatcherChoices ==
    {NilFunc, WithRetryFor(<<errFailed>>), WithRetryFor(<<Canceled, errAnother>>)}

\* the strategies of the explored configurations: none, one that returns a
\* duration, and strategies whose jitter is not positive
StrategyChoices ==
    {NilFunc, NewFixedBackoff(2), NewRandomBackoff(2, 0),
     NewBackoffWithJitter(NewFixedBackoff(2), -1)}
    \cup {ApplyOption(o, ZeroOptions).backoffStrategy :
              o \in {WithRandomBackoff(1), WithExponentialBackoff(1, 0),
                     WithExponentialBackoff(1, 4)}}

\* a handler given by the caller
Handler(name) == [kind |-> "handler", name |-> name]

\* the handlers of the explored configurations
HandlerChoices ==
    {NilFunc, [kind |-> "handler"], AllOf(<<Handler("h1"), Handler("h2")>>)}

\* the Options values passed to WithOptions
BuiltChoices ==
    {[DefaultOptions EXCEPT !.maxAttempts = 1],
     [ZeroOptions EXCEPT !.maxAttempts = 3, !.matcher = ErrIs(errFailed),
                         !.joinCtxErr = TRUE]}

\* the RetryOptions given to NewOptions
RetryOptionChoices ==
    {WithAttempts(2), WithAttempts(-1), WithUnlimitedAttempts, WithJoinCtxErr,
     WithRetryIf(<<ErrIs(errFailed)>>),
     WithRetryIf(<<ErrIs(errFailed), ErrIs(errAnother)>>),
     RetryForOption(<<errAnother>>),
     WithNoRetryIf(<<ErrIs(errAnother)>>),
     NoRetryForOption(<<Canceled, errAnother>>),
     WithBackoff(NewIncrementalBackoff(1, 1, 0)), WithNoBackoff,
     WithFixedBackoff(2), WithRandomBackoff(4),
     WithExponentialBackoff(4, 0), WithExponentialBackoff(4, 20),
     WithExponentialRandomBackoff(4, 0), WithExponentialRandomBackoff(4, 20),
     WithOnRetry(<<Handler("h1")>>), WithOnRetry(<<Handler("h1"), Handler("h2")>>)}
    \cup {WithOptions(opt) : opt \in BuiltChoices}

\* the argument lists of NewOptions
OptionSeqs == UNION {[1..n -> RetryOptionChoices] : n \in 0..MaxOptions}

\* the attempts given to WithAttempts, which stores a negative number as it is
AttemptsChoices == {-1} \cup 0..MaxAttempts

\* the Options values NewOptions builds from WithAttempts, WithUnlimitedAttempts,
\* WithRetryFor, WithNoRetryFor, WithBackoff, WithNoBackoff, WithFixedBackoff,
\* WithRandomBackoff, WithExponentialBackoff, WithOnRetry and WithJoinCtxErr
\* (each sets one field)
OptionsChoices ==
    [maxAttempts     : AttemptsChoices,
     matcher         : MatcherChoices,
     excludedMatcher : MatcherChoices,
     backoffStrategy : StrategyChoices,
     onRetry         : HandlerChoices,
     joinCtxErr      : BOOLEAN]

(***************************************************************************)
(* State of one run.                                                       *)
(***************************************************************************)
VARIABLES
    entry,      \* the function called: "Do", "DoCtx", "Get", "GetCtx"
    options,    \* the Options of the run
    ctxErr,     \* ctx.Err() of the caller's context (Nil while not fired)
    pc,         \* program point: "check", "call", "inop", "sleep", "notify",
                \* "done" (returned), "panic" (left by a panic)
    cnt,        \* local cnt
    lastErr,    \* local lastErr
    err,        \* local err: the error of the latest invocation
    v,          \* local v: the value of the latest invocation (Get)
    backoff,    \* local backoff: the duration of the latest consultation
    ret,        \* the returned (value, error), once pc = "done"
    exit,       \* the return statement taken
    invoked,    \* number of calls of op
    failed,     \* number of invocations that returned an error
    matched,    \* number of invocations whose error matchError accepted
    events,     \* calls made by the engine: <<"op"|"backoff"|"handler", index>>
    waited,     \* total duration slept
    firedAt,    \* where the run was when the context fired
    lastCalls,  \* the handlers invoked by the latest call of options.onRetry
    retriedErrs,\* the errors retried so far
    bk,         \* a consultation of a backoff strategy outside a run
    mem,        \* the Options values in memory: global and each run's otp
    rs,         \* the runs sharing global
    pair,       \* a DoCtxWithOptions and a GetCtxWithOptions call run side by side
    lg          \* the closure of a logging handler and the calls running in it

vars == <<entry, options, ctxErr, pc, cnt, lastErr, err, v, backoff, ret, exit,
          invoked, failed, matched, events, waited, firedAt, lastCalls,
          retriedErrs, bk, mem, rs, pair, lg>>

\* the state of the run
run == <<entry, options, ctxErr, pc, cnt, lastErr, err, v, backoff, ret, exit,
         invoked, failed, matched, events, waited, firedAt, lastCalls,
         retriedErrs>>

\* the state beside the run
beside == <<bk, mem, rs, pair, lg>>

\* no Options value stored
NoMem == [c \in Cells |-> ZeroOptions]

\* a run that has not started
IdleRun ==
    [entry |-> "Do", override |-> 0, pc |-> "idle", opts |-> <<>>, k |-> 0,
     options |-> ZeroOptions, cnt |-> 0, invoked |-> 0, err |-> Nil, waited |-> 0]

\* no run shares an Options value
NoRuns == [r \in Runs |-> IdleRun]

\* the locals of a call of DoCtxWithOptions / GetCtxWithOptions at its entry,
\* with the calls it has made and what it returned
NewMachine ==
    [pc |-> "loop", cnt |-> 0, lastErr |-> Nil, ret |-> [v |-> 0, err |-> Nil],
     calls |-> <<>>]

\* no logging handler
NoLogging ==
    [given |-> "", level |-> "", calls |-> <<>>]

\* no pair of calls
NoPair ==
    [o |-> ZeroOptions, hasCtx |-> FALSE, fired |-> Nil,
     do |-> [NewMachine EXCEPT !.pc = "idle"],
     get |-> [NewMachine EXCEPT !.pc = "idle"]]

\* no strategy consulted
NoConsult ==
    [s |-> NilFunc, e |-> Nil, i |-> 0, rnd |-> 0, conv |-> "min", res |-> 0,
     called |-> FALSE, panicked |-> FALSE]

\* the run has a context: Do and Get pass a nil ctx
HasCtx == entry \in {"DoCtx", "GetCtx"}

\* the run returns a value
IsGet == entry \in {"Get", "GetCtx"}

NotFired == [pc |-> "never", invoked |-> 0]

NoRet == [v |-> 0, err |-> Nil]

Init ==
    /\ entry \in {"Do", "DoCtx", "Get", "GetCtx"}
    /\ options \in OptionsChoices
    /\ ctxErr \in IF HasCtx THEN {Nil, Canceled, DeadlineExceeded} ELSE {Nil}
    /\ firedAt = IF ctxErr = Nil THEN NotFired ELSE [pc |-> "before", invoked |-> 0]
    /\ pc = "check"
    /\ cnt = 0
    /\ lastErr = Nil
    /\ err = Nil
    /\ v = 0
    /\ backoff = 0
    /\ ret = NoRet
    /\ exit = "none"
    /\ invoked = 0
    /\ failed = 0
    /\ matched = 0
    /\ events = <<>>
    /\ waited = 0
    /\ lastCalls = <<>>
    /\ retriedErrs = {}
    /\ pair = NoPair
    /\ lg = NoLogging
    /\ bk = NoConsult
    /\ mem = NoMem
    /\ rs = NoRuns

(***************************************************************************)
(* The attempt loop (try.go).                                              *)
(***************************************************************************)
\* the check with the nil test inverted: a non-nil context is never looked at
CtxCheck_Inverted(hasCtx, e) == IF hasCtx THEN Nil ELSE e

\* the check that looks for context.Canceled alone
CtxCheck_CanceledOnly(hasCtx, e) == IF hasCtx /\ e = Canceled THEN e ELSE Nil

\* ctx != nil && ctx.Err(): the error the check at the top of the loop sees
CtxCheck(hasCtx, e) == IF hasCtx THEN e ELSE Nil

\* cnt += 2
Incr_Twice(c) == c + 2

\* cnt++
Incr(c) == c + 1

\* the limit check with > for >=
AttemptsExceeded_OffByOne(o, c) == o.maxAttempts > 0 /\ c > o.maxAttempts

\* the limit check that takes a limit of 1 for no limit
AttemptsExceeded_FromTwo(o, c) == o.maxAttempts > 1 /\ c >= o.maxAttempts

\* the limit check without the test for maxAttempts > 0
AttemptsExceeded_NoZeroTest(o, c) == c >= o.maxAttempts

\* the limit check that takes every maxAttempts but 0 for a limit
AttemptsExceeded_NonZero(o, c) == o.maxAttempts # 0 /\ c >= o.maxAttempts

\* options.maxAttempts > 0 && cnt >= options.maxAttempts
AttemptsExceeded(o, c) == o.maxAttempts > 0 /\ c >= o.maxAttempts

\* combineErr that never joins
combineErr_NoJoin(join, e, last) == e

\* combineErr that joins for context.DeadlineExceeded alone
combineErr_DeadlineOnly(join, e, last) ==
    IF last = Nil
    THEN e
    ELSE IF join /\ Is(e, DeadlineExceeded)
         THEN Join(e, last)
         ELSE e

\* combineErr that joins lastErr to any error when joinCtxErr is set
combineErr_AnyErr(join, e, last) ==
    IF last = Nil
    THEN e
    ELSE IF join THEN Join(e, last) ELSE e

\* combineErr
combineErr(join, e, last) ==
    IF last = Nil
    THEN e
    ELSE IF join /\ (Is(e, DeadlineExceeded) \/ Is(e, Canceled))
         THEN Join(e, last)
         ELSE e

\* lastErr after a retried error, context errors recorded like any other
RecordLast_Any(o, e, last) == IF o.joinCtxErr THEN e ELSE last

\* lastErr keeps the first retried error
RecordLast_First(o, e, last) ==
    IF o.joinCtxErr /\ ~Is(e, DeadlineExceeded) /\ ~Is(e, Canceled) /\ last = Nil
    THEN e
    ELSE last

\* lastErr after a retried error
RecordLast(o, e, last) ==
    IF o.joinCtxErr /\ ~Is(e, DeadlineExceeded) /\ ~Is(e, Canceled)
    THEN e
    ELSE last

\* return empty, err  for  return v, err
Return_Empty(val, e) == [v |-> 0, err |-> e]

\* return v, err  (Do returns the error alone)
Return(val, e) == [v |-> val, err |-> e]

\* a handler that is not called for the first retry
HandlerCalls_SkipFirst(h, c) == IF h # NilFunc /\ c > 1 THEN <<<<"handler", c>>>> ELSE <<>>

\* if options.onRetry != nil { options.onRetry(ctx, err, cnt) }: the calls made
HandlerCalls(h, c) == IF h # NilFunc THEN <<<<"handler", c>>>> ELSE <<>>

\* the loop of the handler WithOnRetry stores for several handlers, leaving
\* after the first
InvokeAll_FirstOnly(handlers, ctx, e, c) ==
    <<[h |-> handlers[1], ctx |-> ctx, err |-> e, i |-> c]>>

\* for i := range handlers { handlers[i](ctx, err, retry) }: the calls made
InvokeAll(handlers, ctx, e, c) ==
    [j \in 1..Len(handlers) |-> [h |-> handlers[j], ctx |-> ctx, err |-> e, i |-> c]]

\* options.onRetry(ctx, err, cnt): the handlers of the caller it invokes,
\* with their arguments (ctx is whether a context was passed)
Invoke(h, ctx, e, c) ==
    CASE h.kind = "nil" -> <<>>
      [] h.kind = "handlers" -> InvokeAll(h.handlers, ctx, e, c)
      [] OTHER -> <<[h |-> h, ctx |-> ctx, err |-> e, i |-> c]>>

\* a sleep that a fired context cuts short
Sleep_Preempted(d, fired) == IF fired \/ d <= 0 THEN 0 ELSE d

\* time.Sleep(d): the time slept, nothing for d <= 0; the context plays no part
Sleep(d, fired) == IF d <= 0 THEN 0 ELSE d

\* return empty, nil  for  return empty, err
ReturnEmpty_NilErr(e) == [v |-> 0, err |-> Nil]

\* return v, err  for  return empty, err: the value of the last invocation
ReturnEmpty_LastValue(e) == [v |-> v, err |-> e]

\* var empty T; return empty, err
ReturnEmpty(e) == [v |-> 0, err |-> e]

\* top of the loop: the check of the context
CheckCtx ==
    /\ pc = "check"
    /\ UNCHANGED beside
    /\ UNCHANGED <<lastCalls, retriedErrs>>
    /\ IF CtxCheck(HasCtx, ctxErr) # Nil
       THEN /\ ret' = ReturnEmpty(combineErr(options.joinCtxErr, CtxCheck(HasCtx, ctxErr), lastErr))
            /\ exit' = "cancel"
            /\ pc' = "done"
       ELSE /\ pc' = "call"
            /\ UNCHANGED <<ret, exit>>
    /\ UNCHANGED <<entry, options, ctxErr, cnt, lastErr, err, v, backoff,
                   invoked, failed, matched, events, waited, firedAt>>

\* op() is called
CallOp ==
    /\ pc = "call"
    /\ UNCHANGED beside
    /\ UNCHANGED <<lastCalls, retriedErrs>>
    /\ invoked < MaxCalls \/ invoked <= options.maxAttempts
    /\ pc' = "inop"
    /\ invoked' = invoked + 1
    /\ events' = Append(events, <<"op", invoked + 1>>)
    /\ UNCHANGED <<entry, options, ctxErr, cnt, lastErr, err, v, backoff, ret,
                   exit, failed, matched, waited, firedAt>>

\* op() returns (val, e): cnt++, classification, limit check and, for a
\* retried error, the consultation of the backoff strategy
OpReturn(val, e) ==
    /\ pc = "inop"
    /\ UNCHANGED beside
    /\ UNCHANGED <<lastCalls, retriedErrs>>
    /\ cnt' = Incr(cnt)
    /\ err' = e
    /\ v' = val
    /\ failed' = IF e # Nil THEN failed + 1 ELSE failed
    /\ matched' = IF e # Nil /\ matchError(options, e) THEN matched + 1 ELSE matched
    /\ IF e = Nil
       THEN /\ ret' = Return(val, Nil)
            /\ exit' = "success"
            /\ pc' = "done"
            /\ UNCHANGED <<backoff, events>>
       ELSE IF ~matchError(options, e)
       THEN /\ ret' = Return(val, combineErr(options.joinCtxErr, e, lastErr))
            /\ exit' = "nomatch"
            /\ pc' = "done"
            /\ UNCHANGED <<backoff, events>>
       ELSE IF AttemptsExceeded(options, cnt')
       THEN /\ ret' = Return(val, Join(ErrRetryAttemptsExceed,
                                       combineErr(options.joinCtxErr, e, lastErr)))
            /\ exit' = "exceed"
            /\ pc' = "done"
            /\ UNCHANGED <<backoff, events>>
       ELSE IF options.backoffStrategy # NilFunc /\ Panics(options.backoffStrategy)
       THEN /\ events' = Append(events, <<"backoff", cnt'>>)
            /\ pc' = "panic"
            /\ UNCHANGED <<backoff, ret, exit>>
       ELSE IF options.backoffStrategy # NilFunc
       THEN /\ \E rnd \in Draws(options.backoffStrategy), conv \in Convs :
                  backoff' = ApplyStrategy(options.backoffStrategy, e, cnt', rnd, conv)
            /\ events' = Append(events, <<"backoff", cnt'>>)
            /\ pc' = "sleep"
            /\ UNCHANGED <<ret, exit>>
       ELSE /\ pc' = "notify"
            /\ UNCHANGED <<backoff, events, ret, exit>>
    /\ UNCHANGED <<entry, options, ctxErr, lastErr, invoked, waited, firedAt>>

\* time.Sleep(min(backoff, maximumBackoff)) returns
Wake ==
    /\ pc = "sleep"
    /\ UNCHANGED beside
    /\ UNCHANGED <<lastCalls, retriedErrs>>
    /\ waited' = waited + Sleep(Min(backoff, maximumBackoff), ctxErr # Nil)
    /\ pc' = "notify"
    /\ UNCHANGED <<entry, options, ctxErr, cnt, lastErr, err, v, backoff, ret,
                   exit, invoked, failed, matched, events, firedAt>>

\* options.onRetry(ctx, err, cnt), the update of lastErr, continue
Notify ==
    /\ pc = "notify"
    /\ UNCHANGED beside
    /\ events' = events \o HandlerCalls(options.onRetry, cnt)
    /\ lastCalls' = Invoke(options.onRetry, HasCtx, err, cnt)
    /\ retriedErrs' = retriedErrs \cup {err}
    /\ lastErr' = RecordLast(options, err, lastErr)
    /\ pc' = "check"
    /\ UNCHANGED <<entry, options, ctxErr, cnt, err, v, backoff, ret, exit,
                   invoked, failed, matched, waited, firedAt>>

\* the caller's context is cancelled, or its deadline passes
Cancel(e) ==
    /\ HasCtx
    /\ UNCHANGED beside
    /\ UNCHANGED <<lastCalls, retriedErrs>>
    /\ ctxErr = Nil
    /\ pc \notin {"done", "panic"}
    /\ ctxErr' = e
    /\ firedAt' = [pc |-> pc, invoked |-> invoked]
    /\ UNCHANGED <<entry, options, pc, cnt, lastErr, err, v, backoff, ret, exit,
                   invoked, failed, matched, events, waited>>

Next ==
    \/ CheckCtx
    \/ CallOp
    \/ \E val \in (IF IsGet THEN Values ELSE {0}), e \in OpErrs \cup {Nil} : OpReturn(val, e)
    \/ Wake
    \/ Notify
    \/ \E e \in {Canceled, DeadlineExceeded} : Cancel(e)

Spec == Init /\ [][Next]_vars

(***************************************************************************)
(* The backoff strategies alone: a strategy built from the explored        *)
(* parameters is consulted with any error and any attempt index.           *)
(***************************************************************************)
\* no run of the engine
NoRun ==
    /\ entry = "Do"
    /\ options = ZeroOptions
    /\ ctxErr = Nil
    /\ firedAt = NotFired
    /\ pc = "done"
    /\ cnt = 0
    /\ lastErr = Nil
    /\ err = Nil
    /\ v = 0
    /\ backoff = 0
    /\ ret = NoRet
    /\ exit = "none"
    /\ invoked = 0
    /\ failed = 0
    /\ matched = 0
    /\ events = <<>>
    /\ waited = 0
    /\ lastCalls = <<>>
    /\ retriedErrs = {}

InitBackoff ==
    /\ NoRun
    /\ pair = NoPair
    /\ lg = NoLogging
    /\ bk \in {[NoConsult EXCEPT !.s = s] : s \in BackoffChoices}
    /\ mem = NoMem
    /\ rs = NoRuns

\* strategy(err, i)
Consult(e, i, rnd, conv) ==
    /\ bk' = IF Panics(bk.s)
             THEN [bk EXCEPT !.e = e, !.i = i, !.rnd = rnd, !.conv = conv,
                             !.called = TRUE, !.panicked = TRUE]
             ELSE [bk EXCEPT !.e = e, !.i = i, !.rnd = rnd, !.conv = conv,
                             !.called = TRUE, !.panicked = FALSE,
                             !.res = ApplyStrategy(bk.s, e, i, rnd, conv)]
    /\ UNCHANGED <<mem, rs>>
    /\ UNCHANGED run
    /\ UNCHANGED lg
    /\ UNCHANGED pair

NextBackoff ==
    \E e \in {errFailed, errAnother}, i \in 1..MaxIndex,
       rnd \in Draws(bk.s), conv \in Convs : Consult(e, i, rnd, conv)

SpecBackoff == InitBackoff /\ [][NextBackoff]_vars

(***************************************************************************)
(* Runs sharing one Options value: every run is either                     *)
(*   Do(op, WithOptions(global), WithAttempts(override))                   *)
(* or DoWithOptions(op, global), with ctx = nil; the steps of the runs     *)
(* interleave.                                                             *)
(***************************************************************************)
InitShared ==
    /\ NoRun
    /\ pair = NoPair
    /\ lg = NoLogging
    /\ bk = NoConsult
    /\ mem \in {[NoMem EXCEPT ![Global] = g] : g \in SharedChoices}
    /\ rs \in [Runs -> {[IdleRun EXCEPT !.entry = en, !.override = ov, !.pc = "args"] :
                           en \in {"Do", "DoWithOptions"}, ov \in Overrides}]

\* Do: the arguments WithOptions(global), WithAttempts(override) are evaluated
EvalArgs(r) ==
    /\ rs[r].pc = "args"
    /\ rs[r].entry = "Do"
    /\ rs' = [rs EXCEPT ![r].opts = <<WithOptions(mem[Global]), WithAttempts(rs[r].override)>>,
                        ![r].pc = "new"]
    /\ UNCHANGED <<mem, bk>>
    /\ UNCHANGED run
    /\ UNCHANGED lg
    /\ UNCHANGED pair

\* DoWithOptions(op, global): the Options value is passed by value
PassOptions(r) ==
    /\ rs[r].pc = "args"
    /\ rs[r].entry = "DoWithOptions"
    /\ rs' = [rs EXCEPT ![r].options = mem[Global], ![r].pc = "call"]
    /\ UNCHANGED <<mem, bk>>
    /\ UNCHANGED run
    /\ UNCHANGED lg
    /\ UNCHANGED pair

\* NewOptions: otp := Options{...}
NewOptions(r) ==
    /\ rs[r].pc = "new"
    /\ mem' = [mem EXCEPT ![Target(r)] = DefaultOptions]
    /\ rs' = [rs EXCEPT ![r].k = 1, ![r].pc = "apply"]
    /\ UNCHANGED bk
    /\ UNCHANGED run
    /\ UNCHANGED lg
    /\ UNCHANGED pair

\* NewOptions: o(&otp) for the next RetryOption
ApplyNext(r) ==
    /\ rs[r].pc = "apply"
    /\ rs[r].k <= Len(rs[r].opts)
    /\ mem' = [mem EXCEPT ![Target(r)] = ApplyOption(rs[r].opts[rs[r].k], @)]
    /\ rs' = [rs EXCEPT ![r].k = @ + 1]
    /\ UNCHANGED bk
    /\ UNCHANGED run
    /\ UNCHANGED lg
    /\ UNCHANGED pair

\* NewOptions: return otp, passed by value to DoCtxWithOptions
ReturnOptions(r) ==
    /\ rs[r].pc = "apply"
    /\ rs[r].k > Len(rs[r].opts)
    /\ rs' = [rs EXCEPT ![r].options = mem[Target(r)], ![r].pc = "call"]
    /\ UNCHANGED <<mem, bk>>
    /\ UNCHANGED run
    /\ UNCHANGED lg
    /\ UNCHANGED pair

\* one iteration of the loop of DoCtxWithOptions with ctx = nil: op returns
\* e, then cnt++, the classification, the limit check and the backoff
Attempt(r, e, rnd, conv) ==
    LET o == rs[r].options
        c == Incr(rs[r].cnt)
        stop == e = Nil \/ ~matchError(o, e) \/ AttemptsExceeded(o, c)
        panics == o.backoffStrategy # NilFunc /\ Panics(o.backoffStrategy)
        b == IF o.backoffStrategy # NilFunc /\ ~panics
             THEN Min(ApplyStrategy(o.backoffStrategy, e, c, rnd, conv), maximumBackoff)
             ELSE 0
    IN  /\ rs[r].pc = "call"
        /\ rs[r].invoked < MaxCalls \/ rs[r].invoked <= o.maxAttempts
        /\ rs' = [rs EXCEPT ![r].cnt = c,
                            ![r].invoked = @ + 1,
                            ![r].err = e,
                            ![r].waited = IF stop THEN @ ELSE @ + b,
                            ![r].pc = IF stop THEN "done"
                                      ELSE IF panics THEN "panic" ELSE "call"]
        /\ UNCHANGED <<mem, bk>>
        /\ UNCHANGED run
        /\ UNCHANGED lg
        /\ UNCHANGED pair

NextShared ==
    \E r \in Runs :
        \/ EvalArgs(r)
        \/ PassOptions(r)
        \/ NewOptions(r)
        \/ ApplyNext(r)
        \/ ReturnOptions(r)
        \/ \E e \in {Nil, errFailed}, rnd \in Draws(rs[r].options.backoffStrategy),
              conv \in Convs : Attempt(r, e, rnd, conv)

SpecShared == InitShared /\ [][NextShared]_vars

(***************************************************************************)
(* NewOptions(retryOptions...) for any list of RetryOptions: the options   *)
(* are applied to the local otp of the call one by one, and the strategy   *)
(* of the Options value returned is consulted as the loop does.            *)
(***************************************************************************)
\* the call of NewOptions followed here
Builder == 1

InitBuild ==
    /\ NoRun
    /\ pair = NoPair
    /\ lg = NoLogging
    /\ bk = NoConsult
    /\ mem = NoMem
    /\ rs \in {[NoRuns EXCEPT ![Builder] = [IdleRun EXCEPT !.opts = os, !.pc = "new"]] :
                   os \in OptionSeqs}

\* backoff := options.backoffStrategy(err, cnt) with the Options value built
ConsultBuilt(e, i, rnd, conv) ==
    /\ rs[Builder].pc = "call"
    /\ rs[Builder].options.backoffStrategy # NilFunc
    /\ bk' = [s |-> rs[Builder].options.backoffStrategy, e |-> e, i |-> i,
              rnd |-> rnd, conv |-> conv, called |-> TRUE,
              panicked |-> Panics(rs[Builder].options.backoffStrategy),
              res |-> IF Panics(rs[Builder].options.backoffStrategy)
                      THEN 0
                      ELSE ApplyStrategy(rs[Builder].options.backoffStrategy, e, i,
                                         rnd, conv)]
    /\ UNCHANGED <<mem, rs>>
    /\ UNCHANGED run
    /\ UNCHANGED lg
    /\ UNCHANGED pair

NextBuild ==
    \/ NewOptions(Builder)
    \/ ApplyNext(Builder)
    \/ ReturnOptions(Builder)
    \/ \E i \in 1..MaxIndex, rnd \in Draws(rs[Builder].options.backoffStrategy),
          conv \in Convs : ConsultBuilt(errFailed, i, rnd, conv)

SpecBuild == InitBuild /\ [][NextBuild]_vars

(***************************************************************************)
(* DoCtxWithOptions and GetCtxWithOptions side by side: both are called    *)
(* with the same Options and context, and in every iteration their         *)
(* operations return the same error and their contexts show the same       *)
(* state.  Each function is translated from its own body.                  *)
(***************************************************************************)
\* the errors the operations return here
PairErrs == {errFailed, Canceled}

\* the calls of a retried iteration: backoff strategy, time.Sleep, handler
RetryCalls(o, hasCtx, e, n, rnd, conv) ==
    IF o.backoffStrategy # NilFunc /\ Panics(o.backoffStrategy)
    THEN <<<<"backoff", e, n>>>>
    ELSE
    (IF o.backoffStrategy # NilFunc
     THEN <<<<"backoff", e, n>>,
            <<"sleep", Min(ApplyStrategy(o.backoffStrategy, e, n, rnd, conv),
                           maximumBackoff)>>>>
     ELSE <<>>)
    \o (IF o.onRetry # NilFunc THEN <<<<"handler", hasCtx, e, n>>>> ELSE <<>>)

\* one iteration of the loop of DoCtxWithOptions: c is ctx.Err(), e the
\* error op returns
DoIteration(st, o, hasCtx, c, e, rnd, conv) ==
    IF hasCtx /\ c # Nil
    THEN [st EXCEPT !.pc = "done",
                    !.ret = [v |-> 0, err |-> combineErr(o.joinCtxErr, c, st.lastErr)]]
    ELSE LET n == st.cnt + 1
             called == Append(st.calls, <<"op", n>>)
         IN  IF e # Nil
             THEN IF ~matchError(o, e)
                  THEN [st EXCEPT !.pc = "done", !.cnt = n, !.calls = called,
                           !.ret = [v |-> 0,
                                    err |-> combineErr(o.joinCtxErr, e, st.lastErr)]]
                  ELSE IF o.maxAttempts > 0 /\ n >= o.maxAttempts
                  THEN [st EXCEPT !.pc = "done", !.cnt = n, !.calls = called,
                           !.ret = [v |-> 0,
                                    err |-> Join(ErrRetryAttemptsExceed,
                                                 combineErr(o.joinCtxErr, e, st.lastErr))]]
                  ELSE IF o.backoffStrategy # NilFunc /\ Panics(o.backoffStrategy)
                  THEN [st EXCEPT !.pc = "panic", !.cnt = n,
                           !.calls = called \o RetryCalls(o, hasCtx, e, n, rnd, conv)]
                  ELSE [st EXCEPT !.cnt = n,
                           !.calls = called \o RetryCalls(o, hasCtx, e, n, rnd, conv),
                           !.lastErr = IF o.joinCtxErr /\ ~Is(e, DeadlineExceeded)
                                          /\ ~Is(e, Canceled)
                                       THEN e ELSE st.lastErr]
             ELSE [st EXCEPT !.pc = "done", !.cnt = n, !.calls = called,
                             !.ret = [v |-> 0, err |-> Nil]]

\* the limit check of GetCtxWithOptions with > for >=
GetAttemptsExceeded_OffByOne(o, n) == o.maxAttempts > 0 /\ n > o.maxAttempts

\* GetCtxWithOptions: options.maxAttempts > 0 && cnt >= options.maxAttempts
GetAttemptsExceeded(o, n) == o.maxAttempts > 0 /\ n >= o.maxAttempts

\* one iteration of the loop of GetCtxWithOptions: c is ctx.Err(), (val, e)
\* what op returns
GetIteration(st, o, hasCtx, c, val, e, rnd, conv) ==
    IF hasCtx /\ c # Nil
    THEN [st EXCEPT !.pc = "done",
                    !.ret = [v |-> 0, err |-> combineErr(o.joinCtxErr, c, st.lastErr)]]
    ELSE LET n == st.cnt + 1
             called == Append(st.calls, <<"op", n>>)
         IN  IF e # Nil
             THEN IF ~matchError(o, e)
                  THEN [st EXCEPT !.pc = "done", !.cnt = n, !.calls = called,
                           !.ret = [v |-> val,
                                    err |-> combineErr(o.joinCtxErr, e, st.lastErr)]]
                  ELSE IF GetAttemptsExceeded(o, n)
                  THEN [st EXCEPT !.pc = "done", !.cnt = n, !.calls = called,
                           !.ret = [v |-> val,
                                    err |-> Join(ErrRetryAttemptsExceed,
                                                 combineErr(o.joinCtxErr, e, st.lastErr))]]
                  ELSE IF o.backoffStrategy # NilFunc /\ Panics(o.backoffStrategy)
                  THEN [st EXCEPT !.pc = "panic", !.cnt = n,
                           !.calls = called \o RetryCalls(o, hasCtx, e, n, rnd, conv)]
                  ELSE [st EXCEPT !.cnt = n,
                           !.calls = called \o RetryCalls(o, hasCtx, e, n, rnd, conv),
                           !.lastErr = IF o.joinCtxErr /\ ~Is(e, DeadlineExceeded)
                                          /\ ~Is(e, Canceled)
                                       THEN e ELSE st.lastErr]
             ELSE [st EXCEPT !.pc = "done", !.cnt = n, !.calls = called,
                             !.ret = [v |-> val, err |-> Nil]]

InitPair ==
    /\ NoRun
    /\ lg = NoLogging
    /\ bk = NoConsult
    /\ mem = NoMem
    /\ rs = NoRuns
    /\ pair \in {[o |-> o, hasCtx |-> h, fired |-> Nil, do |-> NewMachine,
                   get |-> NewMachine] : o \in OptionsChoices, h \in BOOLEAN}

\* the context both calls were given is cancelled, or its deadline passes
PairCancel(e) ==
    /\ pair.hasCtx
    /\ pair.fired = Nil
    /\ pair.do.pc = "loop" \/ pair.get.pc = "loop"
    /\ pair' = [pair EXCEPT !.fired = e]
    /\ UNCHANGED <<bk, mem, rs>>
    /\ UNCHANGED run
    /\ UNCHANGED lg

\* both calls go through one iteration of their loop
PairIterate(val, e, rnd, conv) ==
    /\ pair.do.pc = "loop" \/ pair.get.pc = "loop"
    /\ \A m \in {pair.do, pair.get} : m.cnt < MaxCalls \/ m.cnt <= pair.o.maxAttempts
    /\ pair' = [pair EXCEPT
                  !.do = IF @.pc = "loop"
                         THEN DoIteration(@, pair.o, pair.hasCtx, pair.fired, e, rnd, conv)
                         ELSE @,
                  !.get = IF @.pc = "loop"
                          THEN GetIteration(@, pair.o, pair.hasCtx, pair.fired, val, e,
                                            rnd, conv)
                          ELSE @]
    /\ UNCHANGED <<bk, mem, rs>>
    /\ UNCHANGED run
    /\ UNCHANGED lg

NextPair ==
    \/ \E e \in {Canceled, DeadlineExceeded} : PairCancel(e)
    \/ \E val \in Values, e \in PairErrs \cup {Nil},
          rnd \in Draws(pair.o.backoffStrategy), conv \in Convs :
            PairIterate(val, e, rnd, conv)

SpecPair == InitPair /\ [][NextPair]_vars

(***************************************************************************)
(* The logging handler.  NewOnRetryLoggingHandler returns a closure over   *)
(* its parameters level and msg; the closure is the onRetry handler of     *)
(* every run that is given the configuration holding it, so the calls of   *)
(* successive and of concurrent runs execute in the same closure.  msg is  *)
(* only read and is left out.                                              *)
(***************************************************************************)
\* the levels of log/slog
Levels == {"DEBUG", "INFO", "WARN", "ERROR"}

LevelError == "ERROR"

\* a call of the handler that has not begun, with what the last one logged
IdleCall == [pc |-> "idle", i |-> 0, out |-> <<>>]

\* the closure returned: the variable level it captures starts as the
\* argument (given keeps the argument for the properties)
NewOnRetryLoggingHandler(level) ==
    [given |-> level, level |-> level, calls |-> [r \in Runs |-> IdleCall]]

InitLogging ==
    /\ NoRun
    /\ bk = NoConsult
    /\ mem = NoMem
    /\ rs = NoRuns
    /\ pair = NoPair
    /\ lg \in {NewOnRetryLoggingHandler(level) : level \in Levels}

\* run r retries and invokes the handler with its attempt count i
LoggingCall(r, i) ==
    /\ lg.calls[r].pc = "idle"
    /\ lg' = [lg EXCEPT !.calls[r] = [pc |-> "test", i |-> i, out |-> <<>>]]
    /\ UNCHANGED <<bk, mem, rs, pair>>
    /\ UNCHANGED run

\* if i >= DefaultAttempts { level = slog.LevelError }
LoggingTest(r) ==
    /\ lg.calls[r].pc = "test"
    /\ lg' = [lg EXCEPT !.level = IF lg.calls[r].i >= DefaultAttempts
                                  THEN LevelError ELSE @,
                        !.calls[r].pc = "log"]
    /\ UNCHANGED <<bk, mem, rs, pair>>
    /\ UNCHANGED run

\* slog.Log(ctx, level, msg, ...): the record is written at the level the
\* captured variable holds now
LoggingLog(r) ==
    /\ lg.calls[r].pc = "log"
    /\ lg' = [lg EXCEPT !.calls[r] = [pc |-> "idle", i |-> 0,
                                      out |-> <<[i |-> @.i, level |-> lg.level]>>]]
    /\ UNCHANGED <<bk, mem, rs, pair>>
    /\ UNCHANGED run

NextLogging ==
    \/ \E r \in Runs, i \in 1..MaxIndex : LoggingCall(r, i)
    \/ \E r \in Runs : LoggingTest(r)
    \/ \E r \in Runs : LoggingLog(r)

SpecLogging == InitLogging /\ [][NextLogging]_vars

TypeOK ==
    /\ pc \in {"check", "call", "inop", "sleep", "notify", "done", "panic"}
    /\ cnt \in 0..(MaxAttempts + MaxCalls)
    /\ invoked \in {cnt, cnt + 1}

(***************************************************************************)
(* Observations used by the properties.                                    *)
(***************************************************************************)
\* number of calls of the given kind the engine has made
Calls(kind) == Cardinality({i \in DOMAIN events : events[i][1] = kind})

\* the classification the specification gives for an error
Retryable(o, e) ==
    /\ (o.excludedMatcher = NilFunc \/ ~ApplyMatcher(o.excludedMatcher, e))
    /\ (o.matcher = NilFunc \/ ApplyMatcher(o.matcher, e))

(***************************************************************************)
(* C1: with an attempt limit N > 1 and no cancellation fired, a run whose  *)
(* every invocation returned a retryable error is not over before the      *)
(* N-th invocation, is over at it, has then invoked the operation exactly  *)
(* N times and returns a non-nil error (Do and Get, with and without ctx). *)
(***************************************************************************)
C1_AlwaysFailingRunsNTimes ==
    (options.maxAttempts > 1 /\ ctxErr = Nil /\ matched = cnt) =>
        /\ (pc = "done") <=> (cnt = options.maxAttempts)
        /\ pc = "done" => (invoked = options.maxAttempts /\ ret.err # Nil)

C1_Witness ==
    /\ pc = "done"
    /\ options.maxAttempts = MaxAttempts
    /\ ctxErr = Nil
    /\ matched = MaxAttempts
    /\ invoked = MaxAttempts
    /\ ret.err # Nil

(***************************************************************************)
(* C2: with an attempt limit N > 0, whatever the operation returns and     *)
(* whenever the context fires, cnt is 0 before the first invocation, is    *)
(* the number of completed invocations, grows by exactly 1 when an         *)
(* invocation returns and otherwise stays, never exceeds N, and the run is *)
(* over once cnt = N: no more than N invocations are made.                 *)
(***************************************************************************)
C2_AttemptCounter ==
    /\ [](options.maxAttempts > 0 =>
            /\ (invoked = 0 => cnt = 0)
            /\ cnt = (IF pc = "inop" THEN invoked - 1 ELSE invoked)
            /\ cnt <= options.maxAttempts
            /\ invoked <= options.maxAttempts
            /\ (cnt = options.maxAttempts => pc = "done"))
    /\ [][options.maxAttempts > 0 =>
            cnt' = (IF pc = "inop" /\ pc' # "inop" THEN cnt + 1 ELSE cnt)]_vars

C2_Witness ==
    /\ pc = "done"
    /\ options.maxAttempts = 2
    /\ cnt = 2
    /\ invoked = 2
    /\ exit = "nomatch"
    /\ ctxErr # Nil

(***************************************************************************)
(* C3: with maxAttempts = 1 the backoff strategy is never consulted, no    *)
(* wait happens and the handler is never invoked; a run whose operation    *)
(* failed with a retryable error has invoked it exactly once and returns   *)
(* an error that matches the operation's error.                            *)
(***************************************************************************)
C3_SingleAttempt ==
    options.maxAttempts = 1 =>
        /\ Calls("backoff") = 0
        /\ Calls("handler") = 0
        /\ waited = 0
        /\ invoked <= 1
        /\ (matched = 1 => /\ pc = "done"
                           /\ invoked = 1
                           /\ Is(ret.err, err))

C3_Witness ==
    /\ options.maxAttempts = 1
    /\ options.backoffStrategy # NilFunc
    /\ options.onRetry # NilFunc
    /\ pc = "done"
    /\ matched = 1
    /\ err = errFailed

(***************************************************************************)
(* C4: with maxAttempts = 0 the returned error never matches               *)
(* ErrRetryAttemptsExceed; the run is over only after a successful         *)
(* invocation, after an error classified non-retryable, or with the        *)
(* context fired; a run ended by a success after k retried failures has    *)
(* invoked the operation exactly k+1 times and returns nil.                *)
(***************************************************************************)
C4_Unlimited ==
    options.maxAttempts = 0 =>
        /\ ~Is(ret.err, ErrRetryAttemptsExceed)
        /\ pc = "done" =>
              \/ cnt >= 1 /\ err = Nil
              \/ cnt >= 1 /\ err # Nil /\ ~Retryable(options, err)
              \/ ctxErr # Nil
        /\ (pc = "done" /\ cnt >= 1 /\ err = Nil) =>
              /\ matched = failed
              /\ invoked = failed + 1
              /\ ret.err = Nil

C4_Witness ==
    /\ options.maxAttempts = 0
    /\ pc = "done"
    /\ err = Nil
    /\ failed = MaxCalls - 1
    /\ invoked = MaxCalls
    /\ ret.err = Nil

(***************************************************************************)
(* C5: when the context has fired before DoCtx / DoCtxWithOptions /        *)
(* GetCtx / GetCtxWithOptions is called, the operation is never invoked,   *)
(* neither backoff nor handler is invoked, and the returned error matches  *)
(* the context's error, context.Canceled or context.DeadlineExceeded.      *)
(***************************************************************************)
C5_FiredBeforeCall ==
    firedAt.pc = "before" =>
        /\ invoked = 0
        /\ events = <<>>
        /\ pc \in {"check", "done"}
        /\ pc = "done" => (Is(ret.err, ctxErr) /\ IsCtxErr(ret.err))

C5_Witness ==
    /\ firedAt.pc = "before"
    /\ ctxErr = DeadlineExceeded
    /\ pc = "done"
    /\ invoked = 0
    /\ Is(ret.err, DeadlineExceeded)

(***************************************************************************)
(* C6, as stated: once the context has fired the operation is never        *)
(* invoked again.                                                          *)
(***************************************************************************)
C6_NeverInvokedAfterFired ==
    [][ctxErr # Nil => invoked' = invoked]_vars

(***************************************************************************)
(* C6, amended: a context that fires between the check at the top of the   *)
(* loop and the invocation that follows this check does not stop that one  *)
(* invocation, and no later one is made; a context that fires at any other *)
(* point (during the k-th invocation, during the wait or the handler call  *)
(* that follows it, before the check) is followed by no invocation at all, *)
(* so the run makes exactly k invocations.                                 *)
(***************************************************************************)
C6_NoInvocationPastCheckedSignal ==
    /\ [][(ctxErr # Nil /\ firedAt.pc # "call") => invoked' = invoked]_vars
    /\ [](ctxErr # Nil => invoked <= firedAt.invoked + 1)
    /\ []((pc = "done" /\ firedAt.pc \in {"inop", "sleep", "notify"}) =>
              invoked = firedAt.invoked)

C6_Witness ==
    /\ pc = "done"
    /\ firedAt.pc = "sleep"
    /\ firedAt.invoked = 2
    /\ invoked = 2
    /\ ctxErr = DeadlineExceeded

(***************************************************************************)
(* C7: with no retry matcher configured, an invocation that returns        *)
(* context.Canceled or context.DeadlineExceeded ends the run: no wait, no  *)
(* handler call and no further invocation follow it.                       *)
(***************************************************************************)
C7_ContextErrorNotRetried ==
    (options.matcher = NilFunc /\ cnt >= 1 /\ pc # "inop" /\ IsCtxErr(err)) =>
        pc = "done"

C9_SuccessAfterRetries ==
    (cnt >= 1 /\ pc # "inop" /\ err = Nil) =>
        /\ pc = "done"
        /\ matched = failed
        /\ invoked = failed + 1
        /\ options.maxAttempts > 0 => failed < options.maxAttempts
        /\ ret.err = Nil
        /\ ret.v = v

C9_Witness ==
    /\ entry = "Get"
    /\ options.maxAttempts = MaxAttempts
    /\ pc = "done"
    /\ failed = MaxAttempts - 1
    /\ invoked = MaxAttempts
    /\ err = Nil
    /\ v = 1
    /\ ret = [v |-> 1, err |-> Nil]

(***************************************************************************)
(* C10: when an attempt has failed with a retried error E that is no       *)
(* context error and the next check finds the context fired, the returned  *)
(* error matches the context's error; it matches E iff joinCtxErr is set.  *)
(* Do and Get alike.                                                       *)
(***************************************************************************)
C10_JoinCtxErr ==
    (pc = "done" /\ exit = "cancel" /\ cnt >= 1 /\ ~IsCtxErr(err)) =>
        /\ Is(ret.err, ctxErr)
        /\ IsCtxErr(ret.err)
        /\ Is(ret.err, err) <=> options.joinCtxErr

C10_Witness ==
    /\ pc = "done"
    /\ exit = "cancel"
    /\ options.joinCtxErr
    /\ ctxErr = Canceled
    /\ err = errFailed
    /\ ret.err = Join(Canceled, errFailed)

(***************************************************************************)
(* C11, as stated: in every terminated run with a handler configured the   *)
(* handler has been invoked once less than the operation (never, when the  *)
(* operation was never invoked).                                           *)
(***************************************************************************)
C11_HandlerOncePerFollowedInvocation ==
    (pc = "done" /\ options.onRetry # NilFunc) =>
        Calls("handler") = (IF invoked >= 1 THEN invoked - 1 ELSE 0)

(***************************************************************************)
(* C11, amended: the handler is invoked once per retried failure, with the *)
(* indices 1, 2, ... of these failures, and not for the failure that ends  *)
(* the run (non-retryable error, attempt limit).  A terminated run has     *)
(* invoked it once less than the operation, unless the run ended at a      *)
(* check that found the context fired: the handler has then been invoked   *)
(* for the last failed invocation too, as often as the operation.          *)
(***************************************************************************)
C11_HandlerOncePerRetriedFailure ==
    (pc = "done" /\ options.onRetry # NilFunc) =>
        /\ SelectSeq(events, LAMBDA ev : ev[1] = "handler") =
              [j \in 1..Calls("handler") |-> <<"handler", j>>]
        /\ Calls("handler") = (IF exit = "cancel" THEN invoked ELSE invoked - 1)
        /\ exit # "cancel" => invoked >= 1

C11_Witness ==
    /\ pc = "done"
    /\ options.onRetry # NilFunc
    /\ exit = "cancel"
    /\ invoked = 2
    /\ Calls("handler") = 2

(***************************************************************************)
(* C12, as stated: a run ended by the attempt limit returns an error that  *)
(* matches ErrRetryAttemptsExceed and the error of the final invocation    *)
(* and, with joinCtxErr set and an earlier retried non-context error       *)
(* recorded, that recorded error.                                          *)
(***************************************************************************)
C12_ExceedJoinsLastRetryable ==
    (pc = "done" /\ exit = "exceed") =>
        /\ Is(ret.err, ErrRetryAttemptsExceed)
        /\ Is(ret.err, err)
        /\ (options.joinCtxErr /\ lastErr # Nil) => Is(ret.err, lastErr)

(***************************************************************************)
(* C12, amended: a run ended by the attempt limit returns an error that    *)
(* matches ErrRetryAttemptsExceed and the error of the final invocation;   *)
(* with joinCtxErr set and an earlier retried non-context error recorded,  *)
(* it also matches that error when the error of the final invocation is a  *)
(* context error, and is the sentinel joined with the final error alone    *)
(* when it is not.                                                         *)
(***************************************************************************)
C12_ExceedJoinsLastForContextError ==
    (pc = "done" /\ exit = "exceed") =>
        /\ Is(ret.err, ErrRetryAttemptsExceed)
        /\ Is(ret.err, err)
        /\ cnt = options.maxAttempts
        /\ (options.joinCtxErr /\ lastErr # Nil /\ IsCtxErr(err)) =>
              Is(ret.err, lastErr)
        /\ ~IsCtxErr(err) => ret.err = Join(ErrRetryAttemptsExceed, err)
        /\ ~options.joinCtxErr => ret.err = Join(ErrRetryAttemptsExceed, err)

C12_Witness ==
    /\ pc = "done"
    /\ exit = "exceed"
    /\ options.joinCtxErr
    /\ lastErr = errFailed
    /\ err = DeadlineExceeded
    /\ ret.err = <<"ErrRetryAttemptsExceed", "DeadlineExceeded", "errFailed">>

(***************************************************************************)
(* C13: a terminated run returns a nil error iff its last invocation       *)
(* returned no error; a run that ends at a cancellation check, at a        *)
(* non-retryable error or at the attempt limit returns a non-nil error,    *)
(* and so does a run without invocation.                                   *)
(***************************************************************************)
C13_NilIffSuccess ==
    pc = "done" =>
        /\ (ret.err = Nil) <=> (cnt >= 1 /\ err = Nil)
        /\ exit \in {"cancel", "nomatch", "exceed"} => ret.err # Nil
        /\ invoked = 0 => ret.err # Nil

C13_Witness ==
    /\ pc = "done"
    /\ invoked = 0
    /\ exit = "cancel"
    /\ ret.err = Canceled
    /\ entry = "GetCtx"

(***************************************************************************)
(* C15: a run with attempt limit N and a backoff strategy whose N          *)
(* invocations all failed retryably has consulted the strategy N-1 times,  *)
(* with the indices 1 .. N-1 in this order, consultation i after           *)
(* invocation i and before invocation i+1, none after invocation N; it has *)
(* waited the sum of the returned durations, (N-1)*d for a fixed d.        *)
(***************************************************************************)
C15_BackoffBetweenAttempts ==
    (/\ pc = "done"
     /\ options.maxAttempts > 0
     /\ matched = options.maxAttempts
     /\ options.backoffStrategy # NilFunc) =>
        /\ SelectSeq(events, LAMBDA ev : ev[1] # "handler") =
              [j \in 1..(2 * options.maxAttempts - 1) |->
                  IF j % 2 = 1 THEN <<"op", (j + 1) \div 2>>
                               ELSE <<"backoff", j \div 2>>]
        /\ Calls("backoff") = options.maxAttempts - 1
        /\ options.backoffStrategy.kind = "fixed" =>
              waited = (options.maxAttempts - 1) * options.backoffStrategy.d

C15_Witness ==
    /\ pc = "done"
    /\ options.maxAttempts = MaxAttempts
    /\ matched = MaxAttempts
    /\ options.backoffStrategy = NewFixedBackoff(2)
    /\ Calls("backoff") = MaxAttempts - 1
    /\ waited = 2 * (MaxAttempts - 1)

(***************************************************************************)
(* C16: an invocation that returns an error classified non-retryable ends  *)
(* the run, after any number of retried errors: neither the backoff        *)
(* strategy nor the handler is invoked for this error, the operation is    *)
(* not invoked again and the returned error matches this error.            *)
(***************************************************************************)
C16_NonRetryableEndsRun ==
    (cnt >= 1 /\ pc # "inop" /\ err # Nil /\ ~Retryable(options, err)) =>
        /\ pc = "done"
        /\ invoked = cnt
        /\ Calls("op") = cnt
        /\ \A i \in DOMAIN events :
              events[i] # <<"backoff", cnt>> /\ events[i] # <<"handler", cnt>>
        /\ Calls("backoff") <= cnt - 1
        /\ Calls("handler") <= cnt - 1
        /\ Is(ret.err, err)

C16_Witness ==
    /\ pc = "done"
    /\ options.matcher = ErrIs(errFailed)
    /\ options.backoffStrategy # NilFunc
    /\ options.onRetry # NilFunc
    /\ cnt = 3
    /\ matched = 2
    /\ err = errAnother
    /\ Calls("backoff") = 2
    /\ Calls("handler") = 2
    /\ Is(ret.err, errAnother)

(***************************************************************************)
(* C17: the matcher of WithRetryFor(e1, ..., en) and of                    *)
(* WithNoRetryFor(e1, ..., en) matches an error iff the error matches at   *)
(* least one of e1 .. en: with WithRetryFor alone an error of the          *)
(* operation ends the run as non-retryable iff it matches none of them,    *)
(* with WithNoRetryFor alone iff it matches one of them.                   *)
(***************************************************************************)
C17_ForMatchesAnyListed ==
    (cnt >= 1 /\ pc # "inop" /\ err # Nil) =>
        /\ (options.matcher.kind = "For" /\ options.excludedMatcher = NilFunc) =>
              ((exit = "nomatch") <=>
                  ~\E i \in DOMAIN options.matcher.errs :
                       Is(err, options.matcher.errs[i]))
        /\ (options.excludedMatcher.kind = "For" /\ options.matcher = NilFunc) =>
              ((exit = "nomatch") <=>
                  \E i \in DOMAIN options.excludedMatcher.errs :
                       Is(err, options.excludedMatcher.errs[i]))

(***************************************************************************)
(* Observations of a consultation.                                         *)
(***************************************************************************)
\* initial * multiplier^(i-1) of the consulted exponential strategy
UncappedExponential == bk.s.initial * Pow(bk.s.multiplier, bk.i - 1)

\* initial + increment*(i-1) of the consulted incremental strategy
UncappedIncremental == bk.s.initial + bk.s.incremental * (bk.i - 1)

(***************************************************************************)
(* C18: NewExponentialBackoff(initial, multiplier, maximum) returns        *)
(* initial * multiplier^(i-1) when maximum = 0 (as far as a Duration holds *)
(* this value) and min(initial * multiplier^(i-1), maximum) when           *)
(* maximum > 0, for every attempt index i >= 1: exactly maximum whenever   *)
(* the uncapped value is at or above it, however large i is.               *)
(***************************************************************************)
C18_ExponentialCapped ==
    (bk.called /\ bk.s.kind = "exponential") =>
        /\ (bk.s.maximum = 0 /\ UncappedExponential <= maximumBackoff) =>
              bk.res = UncappedExponential
        /\ bk.s.maximum > 0 => bk.res = Min(UncappedExponential, bk.s.maximum)

(***************************************************************************)
(* C19: NewExponentialRandomBackoff and NewIncrementalRandomBackoff with   *)
(* maximum > 0 return at most maximum for every attempt index and every    *)
(* jitter draw, and a duration in (maximum - jitter, maximum] when the     *)
(* uncapped value is at or above maximum.  Stated for the consultations    *)
(* whose uncapped value plus jitter a Duration holds.                      *)
(***************************************************************************)
C19_RandomRespectsMaximum ==
    \A kind \in {"exponentialRandom", "incrementalRandom"} :
        (/\ bk.called
         /\ bk.s.kind = kind
         /\ bk.s.maximum > 0) =>
            LET uncapped == IF kind = "exponentialRandom"
                            THEN UncappedExponential ELSE UncappedIncremental
            IN  uncapped + bk.s.jitter <= maximumBackoff =>
                    /\ bk.res <= bk.s.maximum
                    /\ uncapped >= bk.s.maximum =>
                          (/\ bk.res > bk.s.maximum - bk.s.jitter
                           /\ bk.res <= bk.s.maximum)

(***************************************************************************)
(* C20: every built-in strategy built with non-negative parameters and a   *)
(* positive jitter returns a non-negative duration, for every error, every *)
(* attempt index i >= 1 and every jitter draw.                             *)
(***************************************************************************)
C20_NonNegativeDuration ==
    (bk.called /\ bk.i >= 1) => bk.res >= 0

(***************************************************************************)
(* C14: an Options value is never mutated by deriving from it or running   *)
(* with it.  In interleaved runs of Do(op, WithOptions(shared),            *)
(* WithAttempts(n)) and DoWithOptions(op, shared) no step changes any      *)
(* field of shared, and every run works with its own options: shared with  *)
(* maxAttempts overridden to n (n invocations when every invocation        *)
(* fails), respectively shared itself.                                     *)
(***************************************************************************)
C14_SharedNeverMutated ==
    /\ [][mem'[Global] = mem[Global]]_vars
    /\ [](\A r \in Runs :
            LET own == IF rs[r].entry = "Do"
                       THEN [mem[Global] EXCEPT !.maxAttempts = rs[r].override]
                       ELSE mem[Global]
            IN  /\ rs[r].pc \in {"call", "done"} => rs[r].options = own
                /\ (rs[r].pc = "done" /\ rs[r].err # Nil) =>
                       rs[r].invoked = own.maxAttempts)

\* shared has 1 attempt; run 1 overrode it to 2 and is over after 2 failed
\* invocations while run 2 is in the middle of deriving its own options
C14_Witness ==
    /\ mem[Global].maxAttempts = 1
    /\ rs[1].entry = "Do" /\ rs[1].override = 2
    /\ rs[1].pc = "done" /\ rs[1].err = errFailed /\ rs[1].invoked = 2
    /\ rs[2].entry = "Do" /\ rs[2].pc = "apply" /\ rs[2].k = 2

(***************************************************************************)
(* Observations of a call of NewOptions.                                   *)
(***************************************************************************)
\* the RetryOptions given to the call and the Options value it returned
Given == rs[Builder].opts

Built == rs[Builder].options

IsBuilt == rs[Builder].pc = "call"

(***************************************************************************)
(* C21: the wait configured by WithExponentialBackoff(initial, max) has no *)
(* random component: for every attempt index i it is exactly               *)
(* min(initial * 2^(i-1), max), uncapped when max = 0; the wait configured *)
(* by WithExponentialRandomBackoff(initial, max) is the one with a random  *)
(* jitter below initial/2.  Stated for the indices whose uncapped value a  *)
(* Duration holds.                                                         *)
(***************************************************************************)
C21_ExponentialOptionDeterministic ==
    (IsBuilt /\ bk.called /\ Len(Given) >= 1) =>
        LET o == Given[Len(Given)]
            uncapped == o.initial * Pow(defaultMultiplier, bk.i - 1)
            capped == IF o.maximum = 0 THEN uncapped ELSE Min(uncapped, o.maximum)
        IN  /\ (o.kind = "WithExponentialBackoff" /\ uncapped <= maximumBackoff) =>
                  bk.res = capped
            /\ o.kind = "WithExponentialRandomBackoff" =>
                  /\ IsRandom(Built.backoffStrategy)
                  /\ Built.backoffStrategy.jitter = o.initial \div 2

(***************************************************************************)
(* C22: NewIncrementalBackoff(initial, increment, maximum) returns         *)
(* initial + increment*(i-1) for every attempt index i >= 1, and the       *)
(* smaller of this value and maximum when maximum > 0.                     *)
(***************************************************************************)
C22_IncrementalCapped ==
    (bk.called /\ bk.s.kind = "incremental" /\ bk.i >= 1) =>
        bk.res = (IF bk.s.maximum > 0
                  THEN Min(UncappedIncremental, bk.s.maximum)
                  ELSE UncappedIncremental)

(***************************************************************************)
(* C23: the context is looked at only at the top of a loop iteration.      *)
(* When it fires during the k-th invocation or during the wait that        *)
(* follows it, and this invocation returned an error the engine retries    *)
(* (matched, k below the limit), the engine makes no further invocation    *)
(* and returns the context's error only after it has consulted the backoff *)
(* strategy with k, slept the whole duration and called the handler with   *)
(* k, in this order.                                                       *)
(***************************************************************************)
C23_CancellationSeenAtLoopTop ==
    (/\ firedAt.pc \in {"inop", "sleep"}
     /\ cnt = firedAt.invoked
     /\ err # Nil
     /\ matchError(options, err)
     /\ ~AttemptsExceeded(options, cnt)) =>
        /\ invoked = firedAt.invoked
        /\ pc \in {"sleep", "notify", "check", "done", "panic"}
        /\ pc = "done" =>
              /\ exit = "cancel"
              /\ Is(ret.err, ctxErr)
              /\ options.backoffStrategy # NilFunc =>
                    /\ SelectSeq(events, LAMBDA ev : ev[1] = "backoff") =
                          [j \in 1..cnt |-> <<"backoff", j>>]
                    /\ options.backoffStrategy.kind = "fixed" =>
                          waited = cnt * options.backoffStrategy.d
              /\ options.onRetry # NilFunc =>
                    events[Len(events)] = <<"handler", cnt>>
              /\ (options.backoffStrategy # NilFunc /\ options.onRetry # NilFunc) =>
                    events[Len(events) - 1] = <<"backoff", cnt>>

\* the context fired during the wait after the 2nd invocation; the run went
\* on to the handler and returned the context's error at the next check
C23_Witness ==
    /\ firedAt = [pc |-> "sleep", invoked |-> 2]
    /\ pc = "done"
    /\ exit = "cancel"
    /\ cnt = 2
    /\ options.backoffStrategy = NewFixedBackoff(2)
    /\ waited = 4
    /\ options.onRetry # NilFunc
    /\ events[Len(events)] = <<"handler", 2>>
    /\ Is(ret.err, ctxErr)

(***************************************************************************)
(* C24: lastErr is never a context error.  In every state it is nil or an  *)
(* error that was retried and matches neither context.Canceled nor         *)
(* context.DeadlineExceeded; retrying a context error returned by the      *)
(* operation leaves lastErr as it was, and the error of a run ended by the *)
(* context is the context's error alone or joined with lastErr.            *)
(***************************************************************************)
C24_LastErrNeverContextError ==
    /\ [](/\ lastErr # Nil => (~IsCtxErr(lastErr) /\ lastErr \in retriedErrs)
          /\ exit = "cancel" => ret.err \in {ctxErr, Join(ctxErr, lastErr)})
    /\ [][(pc = "notify" /\ IsCtxErr(err)) => lastErr' = lastErr]_vars

\* errFailed was retried and recorded, then the operation returned
\* context.Canceled, which was retried too and did not replace it
C24_Witness ==
    /\ options.joinCtxErr
    /\ cnt = 2
    /\ pc = "check"
    /\ err = Canceled
    /\ retriedErrs = {errFailed, Canceled}
    /\ lastErr = errFailed

(***************************************************************************)
(* C25: with WithJoinCtxErr, a run that retried the failures E1, ..., Ek,  *)
(* none of them a context error, and then found the context fired returns  *)
(* the context's error joined with Ek alone: the returned error matches    *)
(* the context's error and Ek, and no retried error other than Ek.         *)
(***************************************************************************)
C25_JoinsMostRecentOnly ==
    (/\ exit = "cancel"
     /\ options.joinCtxErr
     /\ cnt >= 1
     /\ \A e \in retriedErrs : ~IsCtxErr(e)) =>
        /\ ret.err = Join(ctxErr, err)
        /\ Is(ret.err, ctxErr)
        /\ Is(ret.err, err)
        /\ \A e \in retriedErrs \ {err} : ~Is(ret.err, e)

\* errFailed and then errAnother were retried before the context was found
\* fired: the returned error matches errAnother and not errFailed
C25_Witness ==
    /\ exit = "cancel"
    /\ options.joinCtxErr
    /\ cnt = 3
    /\ retriedErrs = {errFailed, errAnother}
    /\ err = errAnother
    /\ ctxErr = DeadlineExceeded
    /\ Is(ret.err, errAnother)
    /\ ~Is(ret.err, errFailed)

(***************************************************************************)
(* C26: DoCtxWithOptions and GetCtxWithOptions are the same state machine. *)
(* Called with the same Options and context, with operations returning the *)
(* same errors and the context firing at the same point, both are over at  *)
(* the same iteration, have invoked their operation the same number of     *)
(* times, have called the backoff strategy, time.Sleep and the handler     *)
(* with the same arguments in the same order, hold the same lastErr, and   *)
(* return errors that match the same error values.                         *)
(***************************************************************************)
C26_DoAndGetSameMachine ==
    /\ pair.do.pc = pair.get.pc
    /\ pair.do.cnt = pair.get.cnt
    /\ pair.do.calls = pair.get.calls
    /\ pair.do.lastErr = pair.get.lastErr
    /\ pair.do.ret.err = pair.get.ret.err
    /\ \A t \in {ErrRetryAttemptsExceed, Canceled, DeadlineExceeded, errFailed,
                 errAnother} :
           Is(pair.do.ret.err, t) <=> Is(pair.get.ret.err, t)

\* both calls retried errFailed once, through backoff and handler, and
\* reached the attempt limit of 2 with the same error
C26_Witness ==
    /\ pair.do.pc = "done"
    /\ pair.get.pc = "done"
    /\ pair.o.maxAttempts = 2
    /\ pair.o.backoffStrategy # NilFunc
    /\ pair.o.onRetry # NilFunc
    /\ pair.get.cnt = 2
    /\ Len(pair.get.calls) = 5
    /\ Is(pair.get.ret.err, ErrRetryAttemptsExceed)
    /\ Is(pair.do.ret.err, errFailed)
    /\ pair.get.ret.v = 1

(***************************************************************************)
(* C27: with WithOnRetry(h1, ..., hn) every retry invokes all n handlers,  *)
(* h1 first and hn last, each with the context of the run, the error just  *)
(* retried and the attempt index; over one run the attempt indices of the  *)
(* retries are 1, 2, 3, ... without gap.                                   *)
(***************************************************************************)
\* the handlers h1, ..., hn given to WithOnRetry
GivenHandlers ==
    IF options.onRetry.kind = "handlers"
    THEN options.onRetry.handlers
    ELSE IF options.onRetry = NilFunc THEN <<>> ELSE <<options.onRetry>>

C27_AllHandlersInOrder ==
    /\ [][(pc = "notify" /\ pc' = "check") =>
            lastCalls' = [j \in 1..Len(GivenHandlers) |->
                             [h |-> GivenHandlers[j], ctx |-> HasCtx, err |-> err,
                              i |-> cnt]]]_vars
    /\ [](/\ SelectSeq(events, LAMBDA ev : ev[1] = "handler") =
                [j \in 1..Calls("handler") |-> <<"handler", j>>]
          /\ \A j \in 1..Len(lastCalls) :
                /\ lastCalls[j].i = Calls("handler")
                /\ lastCalls[j].err \in retriedErrs)

\* the second retry of a run with WithOnRetry(h1, h2): h1 then h2 were
\* invoked with errAnother and index 2
C27_Witness ==
    /\ options.onRetry = AllOf(<<Handler("h1"), Handler("h2")>>)
    /\ Calls("handler") = 2
    /\ HasCtx
    /\ lastCalls = <<[h |-> Handler("h1"), ctx |-> TRUE, err |-> errAnother, i |-> 2],
                     [h |-> Handler("h2"), ctx |-> TRUE, err |-> errAnother, i |-> 2]>>

(***************************************************************************)
(* C28: NewOptions applies its RetryOptions left to right and the last     *)
(* writer of a field wins.  Every option writes its own field only         *)
(* (WithOptions writes all of them), so each field of the Options value    *)
(* returned holds what the last option writing this field stores, whatever *)
(* stands before or after it, and the default if no option writes it.      *)
(***************************************************************************)
\* the fields of Options
Fields ==
    {"maxAttempts", "matcher", "excludedMatcher", "backoffStrategy", "onRetry",
     "joinCtxErr"}

\* the fields a RetryOption sets
Writes(o) ==
    CASE o.kind \in {"WithAttempts", "WithUnlimitedAttempts"} -> {"maxAttempts"}
      [] o.kind = "WithJoinCtxErr" -> {"joinCtxErr"}
      [] o.kind \in {"WithRetryIf", "WithRetryFor"} -> {"matcher"}
      [] o.kind \in {"WithNoRetryIf", "WithNoRetryFor"} -> {"excludedMatcher"}
      [] o.kind \in {"WithBackoff", "WithNoBackoff", "WithFixedBackoff",
                     "WithRandomBackoff", "WithExponentialBackoff",
                     "WithExponentialRandomBackoff"} -> {"backoffStrategy"}
      [] o.kind = "WithOnRetry" -> {"onRetry"}
      [] o.kind = "WithOptions" -> Fields

\* the position of the last option of opts that sets field f, 0 if none does
LastWriter(opts, f) ==
    LET W == {j \in 1..Len(opts) : f \in Writes(opts[j])}
    IN  IF W = {} THEN 0 ELSE CHOOSE j \in W : \A k \in W : k <= j

\* what the option o alone stores in field f
Stores(o, f) == ApplyOption(o, ZeroOptions)[f]

C28_LastWriterWins ==
    IsBuilt =>
        \A f \in Fields :
            Built[f] = IF LastWriter(Given, f) = 0
                       THEN DefaultOptions[f]
                       ELSE Stores(Given[LastWriter(Given, f)], f)

\* WithAttempts(2) is overridden by the WithOptions after it, whose backoff
\* is in turn replaced by the WithFixedBackoff that follows
C28_Witness ==
    /\ IsBuilt
    /\ Len(Given) = MaxOptions
    /\ Given[MaxOptions - 1] = WithOptions([DefaultOptions EXCEPT !.maxAttempts = 1])
    /\ Given[MaxOptions] = WithFixedBackoff(2)
    /\ \A j \in 1..(MaxOptions - 2) : Given[j] = WithAttempts(2)
    /\ Built.maxAttempts = 1
    /\ Built.backoffStrategy = NewFixedBackoff(2)

(***************************************************************************)
(* C29: a handler built by NewOnRetryLoggingHandler keeps no state between *)
(* calls: every record it writes, in any sequence of calls of one run, of  *)
(* successive runs or of concurrent runs, is at the level the handler was  *)
(* built with when the attempt index is below DefaultAttempts, and at      *)
(* error level only when the index is at or above DefaultAttempts.         *)
(***************************************************************************)
C29_LoggingStateless ==
    \A r \in Runs :
        \A rec \in {lg.calls[r].out[j] : j \in 1..Len(lg.calls[r].out)} :
            rec.level = IF rec.i >= DefaultAttempts THEN LevelError ELSE lg.given

(***************************************************************************)
(* C30: the attempt limit is checked before the context is looked at       *)
(* again.  When the context fires during the invocation whose count        *)
(* reaches maxAttempts and this invocation returns an error that is        *)
(* retried and is not a context error, the run ends at once with the       *)
(* attempts-exceeded error: it matches ErrRetryAttemptsExceed and not the  *)
(* context's error, and neither the backoff strategy nor the handler is    *)
(* called for this attempt.                                                *)
(***************************************************************************)
C30_LimitBeforeLateCancellation ==
    (/\ firedAt.pc = "inop"
     /\ options.maxAttempts > 0
     /\ firedAt.invoked = options.maxAttempts
     /\ cnt = firedAt.invoked
     /\ err # Nil
     /\ ~IsCtxErr(err)
     /\ matchError(options, err)) =>
        /\ pc = "done"
        /\ exit = "exceed"
        /\ invoked = cnt
        /\ Is(ret.err, ErrRetryAttemptsExceed)
        /\ ~Is(ret.err, ctxErr)
        /\ ~IsCtxErr(ret.err)
        /\ \A j \in 1..Len(events) :
              events[j] \notin {<<"backoff", cnt>>, <<"handler", cnt>>}

\* the context fired during the 2nd of at most 2 invocations of a run with a
\* backoff strategy and a handler, and the run ended on the limit
C30_Witness ==
    /\ firedAt = [pc |-> "inop", invoked |-> 2]
    /\ ctxErr = Canceled
    /\ options.maxAttempts = 2
    /\ options.backoffStrategy # NilFunc
    /\ options.onRetry # NilFunc
    /\ options.joinCtxErr
    /\ pc = "done"
    /\ exit = "exceed"
    /\ cnt = 2
    /\ ~IsCtxErr(err)
    /\ Calls("backoff") = 1
    /\ Calls("handler") = 1
    /\ Is(ret.err, ErrRetryAttemptsExceed)

(***************************************************************************)
(* C31: an error of the operation that is not retried and is not a context *)
(* error is returned as it is, without ErrRetryAttemptsExceed and without  *)
(* the earlier retried error, whether or not joinCtxErr is set.  A run     *)
(* returns an error with the earlier retried error joined to it only when  *)
(* joinCtxErr is set and that error matches context.Canceled or            *)
(* context.DeadlineExceeded.                                               *)
(***************************************************************************)
\* the error a finished run ended on: the context's at a cancellation check,
\* else the one the last invocation returned
EndedOn == IF exit = "cancel" THEN ctxErr ELSE err

C32_NegativeAttemptsUnlimited ==
    options.maxAttempts < 0 =>
        /\ \A c \in 0..cnt :
              AttemptsExceeded(options, c) =
                 AttemptsExceeded([options EXCEPT !.maxAttempts = 0], c)
        /\ exit # "exceed"
        /\ ~Is(ret.err, ErrRetryAttemptsExceed)
        /\ pc = "done" =>
              \/ cnt >= 1 /\ err = Nil
              \/ cnt >= 1 /\ err # Nil /\ ~matchError(options, err)
              \/ ctxErr # Nil
        /\ (matched = cnt /\ ctxErr = Nil) => pc # "done"

\* with maxAttempts = -1 every invocation has failed with a retried error
\* and the run is about to invoke the operation again
C32_Witness ==
    /\ options.maxAttempts = -1
    /\ ctxErr = Nil
    /\ invoked = MaxCalls
    /\ cnt = MaxCalls
    /\ matched = MaxCalls
    /\ pc = "call"

(***************************************************************************)
(* C33: when GetCtxWithOptions returns an error, the value next to it is   *)
(* the value the last invocation of the operation returned if the run      *)
(* ended on an error that is not retried or on the attempt limit, and the  *)
(* zero value of T if the run ended at a check of the context, whatever    *)
(* the invocations before returned.                                        *)
(***************************************************************************)
C33_ValueOnFailure ==
    (IsGet /\ pc = "done" /\ ret.err # Nil) =>
        /\ exit \in {"nomatch", "exceed", "cancel"}
        /\ exit \in {"nomatch", "exceed"} => ret.v = v
        /\ exit = "cancel" => ret.v = 0

\* the 2nd invocation returned a non-zero value with a retried error, then
\* the context was found fired: the zero value is returned
C33_Witness ==
    /\ IsGet
    /\ pc = "done"
    /\ exit = "cancel"
    /\ cnt = 2
    /\ v = 1
    /\ ret.v = 0
    /\ ret.err # Nil

(***************************************************************************)
(* C34: a strategy that draws its jitter with a jitter <= 0 never returns  *)
(* a duration.  NewRandomBackoff(d, 0) and NewBackoffWithJitter(s, j) with *)
(* j <= 0 are such strategies, and so are the ones WithRandomBackoff(d)    *)
(* and WithExponentialBackoff(initial, max) store for d and initial below  *)
(* 2, whatever max is.  In a run with such a strategy the first            *)
(* consultation panics: the run is left after exactly one invocation of    *)
(* the operation, nothing is slept, the handler is not called and nothing  *)
(* is returned.                                                            *)
(***************************************************************************)
\* the strategy draws a jitter below a bound that is not positive
NonPositiveJitter(s) == s # NilFunc /\ IsRandom(s) /\ s.jitter <= 0

NonRandom(s) ==
    IF s.kind = "exponentialRandom"
    THEN NewExponentialBackoff(s.initial, s.multiplier, s.maximum)
    ELSE NewIncrementalBackoff(s.initial, s.incremental, s.maximum)

====
